---- MODULE Spec2Model ----
(***************************************************************************)
(* Model of the Window helper of DX12_FW (src/Window.h, src/Window.cpp):   *)
(* window-class registration, window creation, the tearing-support query,  *)
(* swap-chain creation and the borderless-fullscreen toggle.  The host     *)
(* windowing system and the DXGI runtime are modelled by the effects their *)
(* calls have on the windows the process owns.                             *)
(***************************************************************************)
EXTENDS Integers, Sequences, FiniteSets, TLC

\* ------------------------------------------------------------------ bounds
\* Number of Window objects of the process.
NumObjects == 2
\* Number of window handles the host can hand out before it is exhausted.
MaxWindows == 2
\* The toggle count is tracked up to this many ToggleFullscreen calls.
MaxToggles == 3
\* CreateSwapChain is called with bufferCount in 0..MaxBufferCount.
MaxBufferCount == 3

Objects == 1..NumObjects
Handles == 1..MaxWindows

\* ------------------------------------------------------- values and helpers
\* The null window handle.
NULL == 0
\* A member that was never written (g_hWnd, g_WindowRect have no initializer).
INDETERMINATE == -1

Rect(l, t, r, b) == [left |-> l, top |-> t, right |-> r, bottom |-> b]

IndeterminateRect == Rect(INDETERMINATE, INDETERMINATE, INDETERMINATE, INDETERMINATE)

Max(a, b) == IF a >= b THEN a ELSE b
Min(a, b) == IF a <= b THEN a ELSE b

\* C++ integer division truncates toward zero (b > 0).
CDiv(a, b) == IF a >= 0 THEN a \div b ELSE -((-a) \div b)

\* The displays: rcMonitor of each, the first being the primary display.
Monitors == << Rect(0, 0, 8, 6), Rect(8, 0, 16, 6) >>

\* Rectangles the user or the OS may move a window to.
UserRects == { Rect(1, 1, 5, 4), Rect(6, 0, 12, 4) }

\* Client sizes CreateWindow is called with in the window state machine.
ClientSizes == { <<4, 3>> }

\* Window style bits.  WS_OVERLAPPED is 0 and contributes no bit.
WS_CAPTION == "WS_CAPTION"
WS_SYSMENU == "WS_SYSMENU"
WS_THICKFRAME == "WS_THICKFRAME"
WS_MINIMIZEBOX == "WS_MINIMIZEBOX"
WS_MAXIMIZEBOX == "WS_MAXIMIZEBOX"
WS_VISIBLE == "WS_VISIBLE"
WS_MAXIMIZE == "WS_MAXIMIZE"
WS_OVERLAPPEDWINDOW ==
    {WS_CAPTION, WS_SYSMENU, WS_THICKFRAME, WS_MINIMIZEBOX, WS_MAXIMIZEBOX}

\* ---------------------------------------------------------------- state
VARIABLES
    NDEBUG,          \* build: TRUE when assert() is compiled out
    running,         \* FALSE once an assert has aborted the process
    atomInit,        \* the static local `atom` has been initialized
    atom,            \* its value (0: registration failed)
    classRegistered, \* host: DX12RenderWindowClass is registered
    regCalls,        \* number of RegisterClassExW calls issued so far
    win,             \* host: the windows, by handle
    g_Fullscreen,    \* per Window object
    g_WindowRect,    \* per Window object
    g_hWnd,          \* per Window object
    op,              \* the last operation: name, object, argument
    calls,           \* platform calls issued by the last operation
    cw,              \* metrics and geometry, when the last operation is CreateWindow
    dx,              \* driver outcomes and results, when it is a DXGI operation
    enterRect,       \* per object: rectangle its window had before entering
    toggles          \* per object: ToggleFullscreen calls since creation

vars == << NDEBUG, running, atomInit, atom, classRegistered, regCalls, win,
           g_Fullscreen, g_WindowRect, g_hWnd, op, calls, cw, dx,
           enterRect, toggles >>

regVars == << atomInit, atom, classRegistered, regCalls >>
objVars == << g_Fullscreen, g_WindowRect, g_hWnd >>
ghostVars == << enterRect, toggles >>

NoWindow == [exists |-> FALSE, style |-> {}, rect |-> IndeterminateRect]
NoCW == [screenWidth |-> 0, screenHeight |-> 0, width |-> 0, height |-> 0,
         registered |-> FALSE,
         x |-> 0, y |-> 0, windowWidth |-> 0, windowHeight |-> 0]
NoDX == [factory4 |-> FALSE, factory5 |-> FALSE, check |-> FALSE,
         written |-> 0, result |-> FALSE, threw |-> FALSE,
         bufferCount |-> 0, passed |-> -1, flags |-> {}, surface |-> FALSE]
\* toggles[w] while no count is kept for object w.
NotCounted == INDETERMINATE

\* arg is the boolean argument of SetFullscreen (FALSE for the others).
Op(name, w, arg) == [name |-> name, w |-> w, arg |-> arg]

\* ----------------------------------------------------- host windowing system
Valid(ws, h) == h \in Handles /\ ws[h].exists

\* GetWindowRect(h, &out): on failure the out parameter keeps its value.
GetWindowRect(ws, h, out) == IF Valid(ws, h) THEN ws[h].rect ELSE out

\* SetWindowLong(h, GWL_STYLE, style) stores the style word as given.
SetWindowLong(ws, h, style) ==
    IF Valid(ws, h) THEN [ws EXCEPT ![h].style = style] ELSE ws

\* SetWindowPos(h, after, x, y, cx, cy, flags) moves and sizes the window.
SetWindowPos(ws, h, x, y, cx, cy) ==
    IF Valid(ws, h)
    THEN [ws EXCEPT ![h].rect = Rect(x, y, x + cx, y + cy)]
    ELSE ws

\* ShowWindow(h, cmd).  A window whose style carries no WS_MAXIMIZE is not
\* repositioned by SW_NORMAL, and the maximized position of a window without
\* caption and frame is the rectangle of its monitor (where the code has just
\* placed it), so only the style bits change here.
ShowWindow(ws, h, cmd) ==
    IF ~Valid(ws, h) THEN ws
    ELSE CASE cmd = "SW_MAXIMIZE" ->
                [ws EXCEPT ![h].style = @ \cup {WS_VISIBLE, WS_MAXIMIZE}]
           [] cmd = "SW_NORMAL" ->
                [ws EXCEPT ![h].style = (@ \ {WS_MAXIMIZE}) \cup {WS_VISIBLE}]
           [] OTHER ->
                [ws EXCEPT ![h].style = @ \cup {WS_VISIBLE}]

OverlapArea(r, m) ==
    Max(0, Min(r.right, m.right) - Max(r.left, m.left))
    * Max(0, Min(r.bottom, m.bottom) - Max(r.top, m.top))

\* The display a rectangle overlaps most (the first of equals).
NearestMonitor(r) ==
    LET best == CHOOSE i \in DOMAIN Monitors :
                   \A j \in DOMAIN Monitors :
                      \/ OverlapArea(r, Monitors[i]) > OverlapArea(r, Monitors[j])
                      \/ /\ OverlapArea(r, Monitors[i]) = OverlapArea(r, Monitors[j])
                         /\ i <= j
    IN Monitors[best]

\* MonitorFromWindow(h, MONITOR_DEFAULTTONEAREST) followed by GetMonitorInfo:
\* rcMonitor of the display the window overlaps most.  For an invalid handle
\* GetMonitorInfo fails and monitorInfo keeps its zero initialization.
MonitorRectOf(ws, h) ==
    IF Valid(ws, h) THEN NearestMonitor(ws[h].rect) ELSE Rect(0, 0, 0, 0)

\* Values a read of a window-handle member can produce: the member, or, while
\* it was never written, any bit pattern (no window, or by chance a window).
ReadHWND(w) ==
    IF g_hWnd[w] = INDETERMINATE THEN {NULL} \cup Handles ELSE {g_hWnd[w]}

\* Values a read of the saved rectangle can produce.
ReadWindowRect(w) ==
    IF g_WindowRect[w] = IndeterminateRect
    THEN UserRects
    ELSE {g_WindowRect[w]}

\* ------------------------------------------------------------------- Init
Init ==
    /\ NDEBUG \in BOOLEAN
    /\ running = TRUE
    /\ atomInit = FALSE
    /\ atom = 0
    /\ classRegistered = FALSE
    /\ regCalls = 0
    /\ win = [h \in Handles |-> NoWindow]
    /\ g_Fullscreen = [w \in Objects |-> FALSE]
    /\ g_WindowRect = [w \in Objects |-> IndeterminateRect]
    /\ g_hWnd = [w \in Objects |-> INDETERMINATE]
    /\ op = Op("new", 0, FALSE)
    /\ calls = << >>
    /\ cw = NoCW
    /\ dx = NoDX
    /\ enterRect = [w \in Objects |-> IndeterminateRect]
    /\ toggles = [w \in Objects |-> NotCounted]

\* --------------------------------------------------- RegisterWindowClass
\* Variant of StaticInitNeeded: a failed registration is tried again.
StaticInitRetried == ~atomInit \/ atom = 0

\* `static ATOM atom = ...`: the initializer runs on the first call only.
StaticInitNeeded == ~atomInit

\* RegisterClassExW: the atom of the new class, 0 when the host refuses
\* (hostOk = FALSE) or the class name is already registered.
RegisterClassExW(hostOk) == IF hostOk /\ ~classRegistered THEN 1 ELSE 0

\* assert(cond): aborts the process unless compiled out.
AssertPasses(cond) == NDEBUG \/ cond

RegisterWindowClass(w, hostOk) ==
    /\ running
    /\ IF StaticInitNeeded
       THEN LET a == RegisterClassExW(hostOk)
            IN /\ atomInit' = TRUE
               /\ atom' = a
               /\ classRegistered' = (classRegistered \/ a > 0)
               /\ regCalls' = regCalls + 1
               /\ calls' = << "LoadIcon", "LoadCursor", "LoadIcon", "RegisterClassExW" >>
               /\ running' = AssertPasses(a > 0)
       ELSE /\ UNCHANGED regVars
            /\ calls' = << "LoadIcon", "LoadCursor", "LoadIcon" >>
            /\ running' = AssertPasses(atom > 0)
    /\ op' = Op("RegisterWindowClass", w, FALSE)
    /\ cw' = NoCW /\ dx' = NoDX
    /\ UNCHANGED << NDEBUG, win, objVars, ghostVars >>

\* ---------------------------------------------------------- CreateWindow
\* AdjustWindowRect(&r, WS_OVERLAPPEDWINDOW, FALSE): the outer rectangle of a
\* window whose client area is r (frame of 1, caption of 1 above the frame).
AdjustWindowRect(r) == Rect(r.left - 1, r.top - 2, r.right + 1, r.bottom + 1)

\* Variant of CentreCoord: the clamp to 0 is missing.
CentreCoordUnclamped(screen, window) == CDiv(screen - window, 2)

\* std::max<int>(0, (screen - window) / 2)
CentreCoord(screen, window) == Max(0, CDiv(screen - window, 2))

\* GetSystemMetrics(SM_CXSCREEN / SM_CYSCREEN) of the primary display.
PrimaryWidth == Monitors[1].right - Monitors[1].left
PrimaryHeight == Monitors[1].bottom - Monitors[1].top

FreeHandles == {h \in Handles : ~win[h].exists}

\* CreateWindowExW(class, title, WS_OVERLAPPEDWINDOW, x, y, cx, cy, ...): the
\* new window's handle, NULL when the class is not registered, the host has
\* no handle left, or it refuses (hostOk = FALSE).
CreateWindowExW(hostOk) ==
    IF classRegistered /\ hostOk /\ FreeHandles # {}
    THEN CHOOSE h \in FreeHandles : \A k \in FreeHandles : h <= k
    ELSE NULL

CreateWindow(w, screenWidth, screenHeight, width, height, hostOk) ==
    /\ running
    /\ LET windowRect == AdjustWindowRect(Rect(0, 0, width, height))
           windowWidth == windowRect.right - windowRect.left
           windowHeight == windowRect.bottom - windowRect.top
           windowX == CentreCoord(screenWidth, windowWidth)
           windowY == CentreCoord(screenHeight, windowHeight)
           h == CreateWindowExW(hostOk)
           ws == IF h = NULL THEN win
                 ELSE [win EXCEPT ![h] =
                         [exists |-> TRUE, style |-> WS_OVERLAPPEDWINDOW,
                          rect |-> Rect(windowX, windowY,
                                        windowX + windowWidth,
                                        windowY + windowHeight)]]
       IN /\ win' = ws
          /\ g_hWnd' = [g_hWnd EXCEPT ![w] = h]
          /\ cw' = [screenWidth |-> screenWidth, screenHeight |-> screenHeight,
                    width |-> width, height |-> height,
                    registered |-> classRegistered,
                    x |-> windowX, y |-> windowY,
                    windowWidth |-> windowWidth, windowHeight |-> windowHeight]
          /\ IF AssertPasses(h # NULL)
             THEN /\ running' = TRUE
                  /\ g_WindowRect' = [g_WindowRect EXCEPT
                                        ![w] = GetWindowRect(ws, h, @)]
                  /\ calls' = << "GetSystemMetrics", "GetSystemMetrics",
                                 "AdjustWindowRect", "CreateWindowExW",
                                 "GetWindowRect" >>
             ELSE /\ running' = FALSE
                  /\ UNCHANGED g_WindowRect
                  /\ calls' = << "GetSystemMetrics", "GetSystemMetrics",
                                 "AdjustWindowRect", "CreateWindowExW" >>
          /\ toggles' = [toggles EXCEPT
                           ![w] = IF h # NULL /\ ~g_Fullscreen[w]
                                  THEN 0 ELSE NotCounted]
    /\ op' = Op("CreateWindow", w, FALSE)
    /\ dx' = NoDX
    /\ enterRect' = [enterRect EXCEPT ![w] = IndeterminateRect]
    /\ UNCHANGED << NDEBUG, regVars, g_Fullscreen >>

\* --------------------------------------------------------- SetFullscreen
\* Variant of NeedsTransition: the comparison with the current state is missing.
NeedsTransitionAlways(w, fullscreen) == TRUE

\* if (g_Fullscreen != fullscreen)
NeedsTransition(w, fullscreen) == g_Fullscreen[w] # fullscreen

\* Variant of FullscreenStyle: WS_CAPTION is not stripped.
FullscreenStyleCaption ==
    WS_OVERLAPPEDWINDOW
        \ {WS_SYSMENU, WS_THICKFRAME, WS_MINIMIZEBOX, WS_MAXIMIZEBOX}

\* WS_OVERLAPPEDWINDOW & ~(WS_CAPTION | WS_SYSMENU | WS_THICKFRAME |
\*                         WS_MINIMIZEBOX | WS_MAXIMIZEBOX)
FullscreenStyle ==
    WS_OVERLAPPEDWINDOW
        \ {WS_CAPTION, WS_SYSMENU, WS_THICKFRAME, WS_MINIMIZEBOX, WS_MAXIMIZEBOX}

\* Variant of StoredWindowRect: both branches store the window's rectangle.
StoredWindowRectBoth(w, h, fullscreen) ==
    GetWindowRect(win, h, g_WindowRect[w])

\* The value of g_WindowRect after the branch taken: only the branch that
\* enters fullscreen stores the window's rectangle.
StoredWindowRect(w, h, fullscreen) ==
    IF fullscreen
    THEN GetWindowRect(win, h, g_WindowRect[w])
    ELSE g_WindowRect[w]

\* Variant of PosArgs: right and bottom are passed as width and height.
PosArgsCorners(r) == << r.left, r.top, r.right, r.bottom >>

\* The x, y, cx, cy arguments of SetWindowPos for rectangle r.
PosArgs(r) == << r.left, r.top, r.right - r.left, r.bottom - r.top >>

\* The windows after the branch that enters fullscreen, on handle h.
EnterFullscreen(h) ==
    LET w1 == SetWindowLong(win, h, FullscreenStyle)
        a == PosArgs(MonitorRectOf(w1, h))
        w2 == SetWindowPos(w1, h, a[1], a[2], a[3], a[4])
    IN ShowWindow(w2, h, "SW_MAXIMIZE")

\* The windows after the branch that leaves fullscreen, on handle h, with
\* the saved rectangle read as r.
LeaveFullscreen(h, r) ==
    LET w1 == SetWindowLong(win, h, WS_OVERLAPPEDWINDOW)
        a == PosArgs(r)
        w2 == SetWindowPos(w1, h, a[1], a[2], a[3], a[4])
    IN ShowWindow(w2, h, "SW_NORMAL")

EnterCalls == << "GetWindowRect", "SetWindowLongW", "MonitorFromWindow",
                 "GetMonitorInfo", "SetWindowPos", "ShowWindow" >>
LeaveCalls == << "SetWindowLong", "SetWindowPos", "ShowWindow" >>

\* Window::SetFullscreen(fullscreen) on object w: its effect on the object,
\* on the host's windows and on the record of the platform calls.
SetFullscreen(w, fullscreen) ==
    IF NeedsTransition(w, fullscreen)
    THEN \E h \in ReadHWND(w) :
            /\ g_Fullscreen' = [g_Fullscreen EXCEPT ![w] = fullscreen]
            /\ g_WindowRect' = [g_WindowRect EXCEPT
                                  ![w] = StoredWindowRect(w, h, fullscreen)]
            /\ IF fullscreen
               THEN /\ win' = EnterFullscreen(h)
                    /\ calls' = EnterCalls
                    /\ enterRect' = [enterRect EXCEPT
                                       ![w] = GetWindowRect(win, h, IndeterminateRect)]
               ELSE /\ \E r \in ReadWindowRect(w) : win' = LeaveFullscreen(h, r)
                    /\ calls' = LeaveCalls
                    /\ UNCHANGED enterRect
            /\ UNCHANGED g_hWnd
    ELSE /\ calls' = << >>
         /\ UNCHANGED << win, objVars, enterRect >>

\* A call of SetFullscreen(fullscreen) by the host application.
CallSetFullscreen(w, fullscreen) ==
    /\ running
    /\ SetFullscreen(w, fullscreen)
    /\ op' = Op("SetFullscreen", w, fullscreen)
    /\ toggles' = [toggles EXCEPT
                     ![w] = IF NeedsTransition(w, fullscreen) THEN NotCounted ELSE @]
    /\ cw' = NoCW /\ dx' = NoDX
    /\ UNCHANGED << NDEBUG, running, regVars >>

\* void ToggleFullscreen() { SetFullscreen(!g_Fullscreen); }
ToggleFullscreen(w) ==
    /\ running
    /\ SetFullscreen(w, ~g_Fullscreen[w])
    /\ op' = Op("ToggleFullscreen", w, ~g_Fullscreen[w])
    /\ toggles' = [toggles EXCEPT
                     ![w] = IF @ \in 0..(MaxToggles - 1) THEN @ + 1 ELSE NotCounted]
    /\ cw' = NoCW /\ dx' = NoDX
    /\ UNCHANGED << NDEBUG, running, regVars >>

\* void Show() { ::ShowWindow(g_hWnd, SW_SHOW); }
Show(w) ==
    /\ running
    /\ \E h \in ReadHWND(w) : win' = ShowWindow(win, h, "SW_SHOW")
    /\ calls' = << "ShowWindow" >>
    /\ op' = Op("Show", w, FALSE)
    /\ cw' = NoCW /\ dx' = NoDX
    /\ UNCHANGED << NDEBUG, running, regVars, objVars, ghostVars >>

\* The user or the OS moves or resizes window h; the process is not involved
\* (WndProc is only declared here), it sees the result through GetWindowRect.
UserMoveWindow(h, r) ==
    /\ running
    /\ Valid(win, h)
    /\ win' = [win EXCEPT ![h].rect = r]
    /\ calls' = << >>
    /\ op' = Op("UserMoveWindow", 0, FALSE)
    /\ cw' = NoCW /\ dx' = NoDX
    /\ UNCHANGED << NDEBUG, running, regVars, objVars, ghostVars >>

\* ----------------------------------------------------- CheckTearingSupport
\* A driver: which of CreateDXGIFactory1, factory4.As(&factory5) and
\* CheckFeatureSupport succeed, and the BOOL CheckFeatureSupport leaves in
\* allowTearing (it may have written it before failing).
Driver(f4, f5, chk, wr) ==
    [factory4 |-> f4, factory5 |-> f5, check |-> chk, written |-> wr]

AllDrivers ==
    {Driver(f4, f5, chk, wr) : f4 \in BOOLEAN, f5 \in BOOLEAN,
                               chk \in BOOLEAN, wr \in {0, 1}}

\* Variant of CheckTearingSupport: allowTearing is not reset when
\* CheckFeatureSupport fails.
CheckTearingSupportNoReset(d) ==
    LET allowTearing == IF d.factory4 /\ d.factory5 THEN d.written ELSE 0
    IN allowTearing = 1

\* The return value of Window::CheckTearingSupport() on driver d.
CheckTearingSupport(d) ==
    LET afterCheck == IF ~d.check THEN 0 ELSE d.written
        allowTearing == IF d.factory4 /\ d.factory5 THEN afterCheck ELSE 0
    IN allowTearing = 1

\* The DXGI calls CheckTearingSupport issues on driver d.
TearingCalls(d) ==
    << "CreateDXGIFactory1" >>
    \o (IF d.factory4 /\ d.factory5 THEN << "CheckFeatureSupport" >> ELSE << >>)

CallCheckTearingSupport(w, d) ==
    /\ running
    /\ dx' = [NoDX EXCEPT !.factory4 = d.factory4, !.factory5 = d.factory5,
                          !.check = d.check, !.written = d.written,
                          !.result = CheckTearingSupport(d)]
    /\ calls' = TearingCalls(d)
    /\ op' = Op("CheckTearingSupport", w, FALSE)
    /\ cw' = NoCW
    /\ UNCHANGED << NDEBUG, running, regVars, win, objVars, ghostVars >>

\* --------------------------------------------------------- CreateSwapChain
\* The minimum number of buffers of a flip-model swap chain.
MinFlipBuffers == 2

\* The step of CreateSwapChain that the DXGI runtime fails, if any, for
\* reasons other than the description it is given.
Outcomes == {"ok", "CreateDXGIFactory2", "CreateSwapChainForHwnd",
             "MakeWindowAssociation", "As"}

\* ThrowIfFailed(hr): whether the call returns (it throws on a failed hr).
ThrowIfFailed(succeeded) == succeeded

\* CreateSwapChainForHwnd(queue, h, &desc, ...): the runtime rejects a flip
\* model description with fewer than two buffers, and a handle of no window.
CreateSwapChainForHwnd(h, bufferCount, outcome) ==
    /\ outcome # "CreateSwapChainForHwnd"
    /\ bufferCount >= MinFlipBuffers
    /\ Valid(win, h)

\* Variant of DescBufferCount: the count is raised to the flip-model minimum.
DescBufferCountClamped(bufferCount) == Max(bufferCount, MinFlipBuffers)

\* swapChainDesc.BufferCount = bufferCount
DescBufferCount(bufferCount) == bufferCount

CreateSwapChain(w, bufferCount, d, outcome) ==
    /\ running
    /\ \E h \in ReadHWND(w) :
         LET factoryOk == ThrowIfFailed(outcome # "CreateDXGIFactory2")
             tearing == CheckTearingSupport(d)
             flags == IF tearing THEN {"DXGI_SWAP_CHAIN_FLAG_ALLOW_TEARING"} ELSE {}
             count == DescBufferCount(bufferCount)
             chainOk == factoryOk
                        /\ ThrowIfFailed(CreateSwapChainForHwnd(h, count, outcome))
             assocOk == chainOk /\ ThrowIfFailed(outcome # "MakeWindowAssociation")
             asOk == assocOk /\ ThrowIfFailed(outcome # "As")
         IN /\ dx' = [factory4 |-> factoryOk /\ d.factory4,
                      factory5 |-> factoryOk /\ d.factory5,
                      check |-> factoryOk /\ d.check,
                      written |-> IF factoryOk THEN d.written ELSE 0,
                      result |-> factoryOk /\ tearing,
                      threw |-> ~asOk,
                      bufferCount |-> bufferCount,
                      passed |-> IF factoryOk THEN count ELSE -1,
                      flags |-> IF factoryOk THEN flags ELSE {},
                      surface |-> asOk]
            /\ calls' = << "CreateDXGIFactory2" >>
                  \o (IF factoryOk
                      THEN TearingCalls(d) \o << "CreateSwapChainForHwnd" >>
                      ELSE << >>)
                  \o (IF chainOk THEN << "MakeWindowAssociation" >> ELSE << >>)
    /\ op' = Op("CreateSwapChain", w, FALSE)
    /\ cw' = NoCW
    /\ UNCHANGED << NDEBUG, running, regVars, win, objVars, ghostVars >>

\* ------------------------------------------------------- specifications
\* The Window object of the application, whose fullscreen state machine is
\* explored; the other objects only register the class and create windows.
AppWindow == CHOOSE w \in Objects : \A v \in Objects : w <= v

\* Driver and buffer counts exercised in the window state machine.
MainDrivers == {Driver(TRUE, TRUE, TRUE, 1)}
MainBufferCounts == {1, 2}

\* The window state machine of the application's Window object:
\* registration, creation, fullscreen toggling, the user moving windows, and
\* the DXGI calls on a working runtime.
Next ==
    \/ \E hostOk \in BOOLEAN : RegisterWindowClass(AppWindow, hostOk)
    \/ \E size \in ClientSizes, hostOk \in BOOLEAN :
          CreateWindow(AppWindow, PrimaryWidth, PrimaryHeight,
                       size[1], size[2], hostOk)
    \/ \E fullscreen \in BOOLEAN : CallSetFullscreen(AppWindow, fullscreen)
    \/ ToggleFullscreen(AppWindow)
    \/ Show(AppWindow)
    \/ \E h \in Handles, r \in UserRects : UserMoveWindow(h, r)
    \/ \E d \in MainDrivers : CallCheckTearingSupport(AppWindow, d)
    \/ \E n \in MainBufferCounts, d \in MainDrivers :
          CreateSwapChain(AppWindow, n, d, "ok")

Spec == Init /\ [][Next]_vars

\* Screen metrics and client sizes of the sweep over window geometry.
ScreenWidths == {5, 6}
ScreenHeights == {6}
ClientWidths == 1..5
ClientHeights == {1, 5}

\* Registration and creation on every Window object of the process.  The
\* position CreateWindow requests is computed before the host answers; the
\* sweep over metrics is made on requests the host refuses, which leave no
\* window behind.
NextCreation ==
    \/ \E w \in Objects, hostOk \in BOOLEAN : RegisterWindowClass(w, hostOk)
    \/ \E w \in Objects, size \in ClientSizes :
          CreateWindow(w, PrimaryWidth, PrimaryHeight, size[1], size[2], TRUE)
    \/ \E w \in Objects, sw \in ScreenWidths, sh \in ScreenHeights,
          width \in ClientWidths, height \in ClientHeights :
          CreateWindow(w, sw, sh, width, height, FALSE)

SpecCreation == Init /\ [][NextCreation]_vars

\* The DXGI operations on every driver and outcome, on the application's
\* window.
NextDXGI ==
    \/ RegisterWindowClass(AppWindow, TRUE)
    \/ \E size \in ClientSizes :
          CreateWindow(AppWindow, PrimaryWidth, PrimaryHeight,
                       size[1], size[2], TRUE)
    \/ \E d \in AllDrivers : CallCheckTearingSupport(AppWindow, d)
    \/ \E n \in 0..MaxBufferCount, d \in AllDrivers, outcome \in Outcomes :
          CreateSwapChain(AppWindow, n, d, outcome)

SpecDXGI == Init /\ [][NextDXGI]_vars

\* ------------------------------------------------------------- properties
IsFullscreenCall(o, w) ==
    o.w = w /\ o.name \in {"SetFullscreen", "ToggleFullscreen"}

\* C1: a SetFullscreen call whose argument equals the current fullscreen flag
\* issues no platform call and leaves the flag, the saved rectangle, the
\* window handle and every window's style and rectangle unchanged.
C1_NoOpTransition ==
    [][ (op'.name = "SetFullscreen" /\ op'.arg = g_Fullscreen[op'.w])
        => (calls' = << >> /\ UNCHANGED << g_Fullscreen, g_WindowRect, g_hWnd, win >>)
      ]_vars

\* SetFullscreen(true) was called on a window already in fullscreen.
C1_Witness ==
    /\ op.name = "SetFullscreen" /\ op.arg = TRUE /\ calls = << >>
    /\ g_Fullscreen[op.w]
    /\ Valid(win, g_hWnd[op.w])
    /\ WS_MAXIMIZE \in win[g_hWnd[op.w]].style

\* C2: when a created window that entered fullscreen leaves it, its rectangle
\* is exactly the one it had immediately before entering, whatever the user
\* did to it after creation and however often the round trip is made.
C2_RoundTrip ==
    \A w \in Objects :
        ( /\ IsFullscreenCall(op, w)
          /\ calls = LeaveCalls
          /\ enterRect[w] # IndeterminateRect
          /\ Valid(win, g_hWnd[w]) )
        => win[g_hWnd[w]].rect = enterRect[w]

\* A window the user had moved has been through fullscreen and is back.
C2_Witness ==
    \E w \in Objects :
        /\ op = Op("SetFullscreen", w, FALSE)
        /\ calls = LeaveCalls
        /\ enterRect[w] \in UserRects
        /\ Valid(win, g_hWnd[w])
        /\ win[g_hWnd[w]].rect = enterRect[w]

\* C3: counting ToggleFullscreen calls from the creation of a window in state
\* Windowed, after an odd number the state is FullscreenBorderless, the window
\* is borderless, shown maximized and covers the monitor nearest to where it
\* was; after an even number the state is Windowed, the window has the
\* overlapped style, is shown normal and is at the saved rectangle.
C3_ToggleStateMachine ==
    \A w \in Objects :
        (op.name = "ToggleFullscreen" /\ op.w = w /\ toggles[w] > 0)
        => /\ Valid(win, g_hWnd[w])
           /\ LET wnd == win[g_hWnd[w]]
              IN IF toggles[w] % 2 = 1
                 THEN /\ g_Fullscreen[w]
                      /\ wnd.style \cap WS_OVERLAPPEDWINDOW = {}
                      /\ {WS_VISIBLE, WS_MAXIMIZE} \subseteq wnd.style
                      /\ wnd.rect = NearestMonitor(enterRect[w])
                 ELSE /\ ~g_Fullscreen[w]
                      /\ wnd.style = WS_OVERLAPPEDWINDOW \cup {WS_VISIBLE}
                      /\ wnd.rect = g_WindowRect[w]

\* The third toggle since creation put the window on the second display.
C3_Witness ==
    \E w \in Objects :
        /\ op.name = "ToggleFullscreen" /\ op.w = w
        /\ toggles[w] = 3
        /\ g_Fullscreen[w]
        /\ Valid(win, g_hWnd[w])
        /\ win[g_hWnd[w]].rect = Monitors[2]

\* C4: right after a CreateWindow call that returned a window, the fullscreen
\* flag of the object is false.
C4_WindowedAfterCreate ==
    \A w \in Objects :
        (op.name = "CreateWindow" /\ op.w = w /\ running /\ g_hWnd[w] # NULL)
        => ~g_Fullscreen[w]

\* C5: CreateWindow requests a top-left corner that is never negative, is the
\* centred position when the window fits the screen on that axis, and is 0
\* when the window is larger than the screen.
C5_CentredAndClamped ==
    op.name = "CreateWindow"
    => /\ cw.x >= 0 /\ cw.y >= 0
       /\ cw.windowWidth <= cw.screenWidth
            => cw.x = (cw.screenWidth - cw.windowWidth) \div 2
       /\ cw.windowWidth > cw.screenWidth => cw.x = 0
       /\ cw.windowHeight <= cw.screenHeight
            => cw.y = (cw.screenHeight - cw.windowHeight) \div 2
       /\ cw.windowHeight > cw.screenHeight => cw.y = 0

\* A window wider than the screen and lower than it was requested.
C5_Witness ==
    /\ op.name = "CreateWindow"
    /\ cw.windowWidth > cw.screenWidth + 1 /\ cw.x = 0
    /\ cw.windowHeight < cw.screenHeight /\ cw.y > 0

\* C6: CheckTearingSupport returns without throwing or aborting; it returns
\* false when any of the three driver steps fails, and true only when all
\* three succeed and the driver reports tearing allowed.
C6_TearingQueryTolerant ==
    op.name = "CheckTearingSupport"
    => /\ running /\ ~dx.threw
       /\ dx.result \in BOOLEAN
       /\ (~dx.factory4 \/ ~dx.factory5 \/ ~dx.check) => dx.result = FALSE
       /\ dx.result = TRUE
            => (dx.factory4 /\ dx.factory5 /\ dx.check /\ dx.written = 1)

\* The feature check failed after writing TRUE, and the query returned false.
C6_Witness ==
    /\ op.name = "CheckTearingSupport"
    /\ dx.factory4 /\ dx.factory5 /\ ~dx.check /\ dx.written = 1
    /\ dx.result = FALSE

\* C7 (as stated): CreateSwapChain called with fewer than two buffers passes no such
\* count to CreateSwapChainForHwnd and returns no swap chain.
C7_RejectsSingleBuffer ==
    (op.name = "CreateSwapChain" /\ dx.bufferCount < MinFlipBuffers)
    => (dx.passed # dx.bufferCount /\ ~dx.surface)

\* C7 (amended): CreateSwapChain called with fewer than two buffers returns
\* no swap chain: it throws, and a count it passes to CreateSwapChainForHwnd
\* is the count it was given, which the runtime refuses.
C7_SingleBufferRefusedByRuntime ==
    (op.name = "CreateSwapChain" /\ dx.bufferCount < MinFlipBuffers)
    => /\ ~dx.surface /\ dx.threw
       /\ dx.passed \in {-1, dx.bufferCount}

\* One buffer was asked for on a created window with a working runtime: the
\* count reached CreateSwapChainForHwnd and the call threw.
C7_Witness ==
    /\ op.name = "CreateSwapChain"
    /\ dx.bufferCount = 1 /\ dx.passed = 1
    /\ dx.threw /\ ~dx.surface
    /\ Valid(win, g_hWnd[op.w])
    /\ "MakeWindowAssociation" \notin {calls[i] : i \in DOMAIN calls}

\* C8: CreateWindow requests a window of class DX12RenderWindowClass only
\* while that class is registered.
C8_RegistrationPrecedesCreation ==
    op.name = "CreateWindow" => cw.registered

\* C9: RegisterClassExW is called at most once in the process, whatever the
\* number of RegisterWindowClass calls, the objects they are made on and the
\* result of the first registration.
C9_AtMostOneRegistration == regCalls <= 1

\* A second object called RegisterWindowClass after a failed registration,
\* and no registration call was issued.
C9_Witness ==
    /\ op.name = "RegisterWindowClass" /\ op.w # AppWindow
    /\ "RegisterClassExW" \notin {calls[i] : i \in DOMAIN calls}
    /\ atomInit /\ atom = 0 /\ regCalls = 1

\* C10: the saved rectangle of an object changes only in CreateWindow on that
\* object and in its transition from Windowed to FullscreenBorderless; while
\* the object stays in FullscreenBorderless and creates no window, the saved
\* rectangle keeps its value.
C10_SavedRectFrame ==
    [][ \A w \in Objects :
          /\ g_WindowRect'[w] # g_WindowRect[w]
               => \/ (op'.name = "CreateWindow" /\ op'.w = w)
                  \/ (IsFullscreenCall(op', w) /\ ~g_Fullscreen[w] /\ g_Fullscreen'[w])
          /\ (g_Fullscreen[w] /\ g_Fullscreen'[w] /\ op'.name # "CreateWindow")
               => g_WindowRect'[w] = g_WindowRect[w]
      ]_vars

\* In fullscreen on the second display, after a swap chain was created, the
\* saved rectangle is still the one the user had given the window.
C10_Witness ==
    \E w \in Objects :
        /\ op.name = "CreateSwapChain" /\ op.w = w /\ dx.surface
        /\ g_Fullscreen[w]
        /\ Valid(win, g_hWnd[w])
        /\ win[g_hWnd[w]].rect = Monitors[2]
        /\ g_WindowRect[w] \in UserRects

====
